---------------------------- MODULE Spec2Model ----------------------------
(***************************************************************************)
(* CryptoTrackerAPI (src/main.cpp): the in-memory market-data cache of     *)
(* class CryptoTracker, its background refresh loop, the on-demand order   *)
(* book fetch and the three request handlers of CryptoAPIServer.           *)
(*                                                                         *)
(* Threads: the main thread (CryptoAPIServer::start), the detached         *)
(* threads spawned by startBackgroundRefresh, and the request tasks of the *)
(* httplib server.  The four unordered_maps are shared without any lock;   *)
(* only SafeCurlWrapper::performRequest is guarded (curl_mutex).           *)
(***************************************************************************)
EXTENDS Integers, Sequences, FiniteSets, TLC

(***************************************************************************)
(* Bounds of the model.                                                    *)
(***************************************************************************)
\* number of background threads startBackgroundRefresh may spawn in a run
MaxLoops == 2
\* number of request tasks that serve requests at the same time
NReq == 1
\* number of request tasks that serve /livedata requests at the same time
\* when only /livedata is served
NConc == 2
\* the chunks curl hands writeCallback for one response
MaxChunks == 2

(***************************************************************************)
(* JSON documents (nlohmann::json).  An object keeps its members as a      *)
(* sequence of <<key, value>> in key order, the order of the std::map that *)
(* backs it, which is also the order items() and range-for visit them in.  *)
(***************************************************************************)
JNull == [t |-> "null"]
JStr(s) == [t |-> "string", s |-> s]
\* a number, held in millionths (1234.5 is JNum(1234500000))
JNum(micro) == [t |-> "number", micro |-> micro]
JArr(a) == [t |-> "array", a |-> a]
JObj(kv) == [t |-> "object", kv |-> kv]

Keys(j) == {j.kv[i][1] : i \in 1..Len(j.kv)}
\* json::contains(key): false for anything that is not an object
Contains(j, k) == j.t = "object" /\ k \in Keys(j)
\* json::operator[](key) on an object that holds the key
At(j, k) == j.kv[CHOOSE i \in 1..Len(j.kv) : j.kv[i][1] = k][2]
\* the elements a range-for over a json value visits
Elements(j) ==
    CASE j.t = "array" -> j.a
      [] j.t = "object" -> [i \in 1..Len(j.kv) |-> j.kv[i][2]]
      [] j.t = "null" -> << >>
      [] OTHER -> <<j>>

(***************************************************************************)
(* A response body as performRequest returns it: the empty string, text    *)
(* json::parse rejects, or text json::parse accepts.                       *)
(***************************************************************************)
EmptyBody == [kind |-> "empty"]
GarbageBody == [kind |-> "text"]
JsonBody(j) == [kind |-> "json", json |-> j]

(***************************************************************************)
(* std::to_string(double): printf("%f"), six digits after the point.       *)
(***************************************************************************)
DigitChars == <<"0", "1", "2", "3", "4", "5", "6", "7", "8", "9">>

RECURSIVE NatToString(_)
NatToString(n) ==
    IF n < 10 THEN DigitChars[n + 1]
    ELSE NatToString(n \div 10) \o DigitChars[(n % 10) + 1]

RECURSIVE Digits(_, _)
\* the last w decimal digits of n, zero padded
Digits(n, w) ==
    IF w = 0 THEN "" ELSE Digits(n \div 10, w - 1) \o DigitChars[(n % 10) + 1]

to_string(micro) ==
    NatToString(micro \div 1000000) \o "." \o Digits(micro % 1000000, 6)


(***************************************************************************)
(* struct TickerDetails and CryptoTracker::parseTickerDetails.             *)
(***************************************************************************)
\* TickerDetails(): the default constructor
DefaultTickerDetails ==
    [market |-> "", change_24_hour |-> "0", high |-> "", low |-> "",
     volume |-> "", last_price |-> "", bid |-> "", ask |-> "", timestamp |-> 0]

\* one of the seven decimal fields: a number goes through std::to_string, a
\* string is taken as it is, anything else keeps the constructor's value
DecimalText(item, k, dflt) ==
    IF ~Contains(item, k) THEN dflt
    ELSE IF At(item, k).t = "number" THEN to_string(At(item, k).micro)
    ELSE IF At(item, k).t = "string" THEN At(item, k).s
    ELSE dflt

\* the body of the loop of parseTickerDetails, for one item
TickerOf(item) ==
    LET d == DefaultTickerDetails IN
    [market |-> IF Contains(item, "market") /\ At(item, "market").t = "string"
                THEN At(item, "market").s ELSE d.market,
     change_24_hour |-> DecimalText(item, "change_24_hour", d.change_24_hour),
     high |-> DecimalText(item, "high", d.high),
     low |-> DecimalText(item, "low", d.low),
     volume |-> DecimalText(item, "volume", d.volume),
     last_price |-> DecimalText(item, "last_price", d.last_price),
     bid |-> DecimalText(item, "bid", d.bid),
     ask |-> DecimalText(item, "ask", d.ask),
     timestamp |-> IF Contains(item, "timestamp") /\ At(item, "timestamp").t = "number"
                   THEN At(item, "timestamp").micro \div 1000000 ELSE d.timestamp]

\* the vector parseTickerDetails returns for a document json::parse accepted
parseTickerDetails(j) ==
    [i \in 1..Len(Elements(j)) |-> TickerOf(Elements(j)[i])]

(***************************************************************************)
(* struct OrderBook and CryptoTracker::parseOrderBook.                     *)
(***************************************************************************)
EmptyMap == << >>
EmptyOrderBook == [bids |-> EmptyMap, asks |-> EmptyMap]

\* how many leading members of an object are strings: quantity.get<string>()
\* throws on the first that is not
RECURSIVE StringPrefix(_, _)
StringPrefix(kv, i) ==
    IF i > Len(kv) THEN Len(kv)
    ELSE IF kv[i][2].t = "string" THEN StringPrefix(kv, i + 1)
    ELSE i - 1

\* the unordered_map filled from the first n members
LevelsOf(kv, n) ==
    [p \in {kv[i][1] : i \in 1..n} |->
        kv[CHOOSE i \in 1..n : kv[i][1] = p][2].s]

IsSide(j, side) == Contains(j, side) /\ At(j, side).t = "object"
SideThrows(j, side) ==
    IsSide(j, side) /\ StringPrefix(At(j, side).kv, 1) < Len(At(j, side).kv)
SideLevels(j, side) ==
    IF IsSide(j, side)
    THEN LevelsOf(At(j, side).kv, StringPrefix(At(j, side).kv, 1))
    ELSE EmptyMap

\* parseOrderBook: every exception is caught inside and the order book
\* built so far is returned
parseOrderBook(body) ==
    IF body.kind # "json" THEN EmptyOrderBook
    ELSE [bids |-> SideLevels(body.json, "bids"),
          asks |-> IF SideThrows(body.json, "bids") THEN EmptyMap
                   ELSE SideLevels(body.json, "asks")]

(***************************************************************************)
(* struct MarketDetails and CryptoTracker::parseMarketDetails.             *)
(***************************************************************************)
\* the fields in the order parseMarketDetails reads them, with the type the
\* conversion needs
MarketFields ==
    << <<"coindcx_name", "string">>, <<"base_currency_short_name", "string">>,
       <<"target_currency_short_name", "string">>,
       <<"target_currency_name", "string">>, <<"base_currency_name", "string">>,
       <<"min_quantity", "number">>, <<"max_quantity", "number">>,
       <<"min_price", "number">>, <<"max_price", "number">>,
       <<"min_notional", "number">>, <<"base_currency_precision", "int">>,
       <<"target_currency_precision", "int">>, <<"step", "number">>,
       <<"order_types", "strings">>, <<"symbol", "string">>,
       <<"ecode", "string">>, <<"pair", "string">>, <<"status", "string">> >>

\* whether value v converts to the type a field needs
Converts(v, type) ==
    CASE type = "string" -> v.t = "string"
      [] type \in {"number", "int"} -> v.t = "number"
      [] type = "strings" ->
            v.t = "array" /\ \A i \in 1..Len(v.a) : v.a[i].t = "string"

\* what reading field i of an item does: "ok"; "throw" (type_error: the item
\* is no object, or the value has the wrong type); "ub" (operator[] const on a
\* key the object does not hold)
FieldOutcome(item, i) ==
    LET k == MarketFields[i][1] IN
    IF item.t # "object" THEN "throw"
    ELSE IF ~Contains(item, k) THEN "ub"
    ELSE IF Converts(At(item, k), MarketFields[i][2]) THEN "ok"
    ELSE "throw"

\* the outcome of the first field that does not read cleanly
RECURSIVE ItemOutcome(_, _)
ItemOutcome(item, i) ==
    IF i > Len(MarketFields) THEN "ok"
    ELSE IF FieldOutcome(item, i) = "ok" THEN ItemOutcome(item, i + 1)
    ELSE FieldOutcome(item, i)

FieldValue(v, type) ==
    CASE type = "string" -> v.s
      [] type = "number" -> v.micro
      [] type = "int" -> v.micro \div 1000000
      [] type = "strings" -> [i \in 1..Len(v.a) |-> v.a[i].s]

MarketFieldNames == {MarketFields[i][1] : i \in 1..Len(MarketFields)}
TypeOfField(k) ==
    MarketFields[CHOOSE i \in 1..Len(MarketFields) : MarketFields[i][1] = k][2]

\* what the read of a key the item does not hold leaves in the field when
\* the build reads on past it: a value nobody chose
Indeterminate(type) ==
    CASE type = "string" -> "?"
      [] type \in {"number", "int"} -> 0
      [] type = "strings" -> << >>

\* the MarketDetails of an item none of whose fields throws; max_leverage is
\* never assigned and stays the empty string
MarketOf(item) ==
    [k \in MarketFieldNames \cup {"max_leverage"} |->
        IF k = "max_leverage" THEN ""
        ELSE IF Contains(item, k) THEN FieldValue(At(item, k), TypeOfField(k))
        ELSE Indeterminate(TypeOfField(k))]

\* the first item that does not read cleanly, or 0
RECURSIVE FirstBadItem(_, _)
FirstBadItem(items, i) ==
    IF i > Len(items) THEN 0
    ELSE IF ItemOutcome(items[i], 1) = "ok" THEN FirstBadItem(items, i + 1)
    ELSE i

\* parseMarketDetails on a document json::parse accepted: the vector, or the
\* exception / undefined behaviour of the first bad item
parseMarketDetails(j) ==
    LET items == Elements(j)
        bad == FirstBadItem(items, 1)
    IN IF bad = 0
       THEN [outcome |-> "ok",
             value |-> [i \in 1..Len(items) |-> MarketOf(items[i])]]
       ELSE [outcome |-> ItemOutcome(items[bad], 1), value |-> << >>]

\* what parseMarketDetails may do once an item lacks a key.  operator[] const
\* on a missing key is undefined: with the library's assertion compiled in
\* the process aborts, without it the read yields whatever lies there, and
\* the conversion of that throws, crashes or goes through.  For the caller
\* that is a parse that throws, or a parse that returns a vector holding
\* indeterminate fields; the second needs every other field to convert.
ReadsOn(items) ==
    \A i \in 1..Len(items) : \A f \in 1..Len(MarketFields) :
        FieldOutcome(items[i], f) \in {"ok", "ub"}
parseMarketDetailsUndefined(j) ==
    {[outcome |-> "throw", value |-> << >>]} \cup
    IF ReadsOn(Elements(j))
    THEN {[outcome |-> "ok",
           value |-> [i \in 1..Len(Elements(j)) |-> MarketOf(Elements(j)[i])]]}
    ELSE {}

\* every way a call of parseMarketDetails may end
parseMarketDetailsOutcomes(j) ==
    IF parseMarketDetails(j).outcome = "ub" THEN parseMarketDetailsUndefined(j)
    ELSE {parseMarketDetails(j)}

(***************************************************************************)
(* What the exchange may answer.  The documents are small instances of the *)
(* three endpoints' formats; a request may also fail in transport.         *)
(***************************************************************************)
Num(n) == JNum(n * 1000000)

\* one element of /exchange/v1/markets_details
MarketItem(name, pair, base, maxq) ==
    JObj(<< <<"base_currency_name", JStr(base)>>,
            <<"base_currency_precision", Num(2)>>,
            <<"base_currency_short_name", JStr("INR")>>,
            <<"coindcx_name", JStr(name)>>,
            <<"ecode", JStr("I")>>,
            <<"max_price", Num(maxq)>>,
            <<"max_quantity", Num(maxq)>>,
            <<"min_notional", Num(1)>>,
            <<"min_price", Num(1)>>,
            <<"min_quantity", Num(1)>>,
            <<"order_types", JArr(<<JStr("limit_order"), JStr("market_order")>>)>>,
            <<"pair", JStr(pair)>>,
            <<"status", JStr("active")>>,
            <<"step", Num(1)>>,
            <<"symbol", JStr(name)>>,
            <<"target_currency_name", JStr(base)>>,
            <<"target_currency_precision", Num(5)>>,
            <<"target_currency_short_name", JStr(base)>> >>)

\* the same element with max_quantity sent as a string: its conversion throws
BadMarketItem(name, pair) ==
    JObj(<< <<"base_currency_name", JStr("x")>>,
            <<"base_currency_precision", Num(2)>>,
            <<"base_currency_short_name", JStr("INR")>>,
            <<"coindcx_name", JStr(name)>>,
            <<"max_quantity", JStr("90")>>,
            <<"min_quantity", Num(1)>>,
            <<"pair", JStr(pair)>>,
            <<"target_currency_name", JStr("x")>>,
            <<"target_currency_short_name", JStr("x")>> >>)

MarketDocs ==
    { JArr(<<MarketItem("BTCINR", "I-BTC_INR", "Bitcoin", 90),
             MarketItem("ETHINR", "I-ETH_INR", "Ether", 80)>>),
      JArr(<<MarketItem("XRPINR", "I-XRP_INR", "Ripple", 70)>>),
      JArr(<<MarketItem("BTCINR", "I-BTC_INR", "Bitcoin", 90),
             BadMarketItem("ETHINR", "I-ETH_INR")>>) }

\* an object without key k
WithoutField(item, k) == JObj(SelectSeq(item.kv, LAMBDA e : e[1] # k))

\* market documents with an item that is not valid after a valid one: ETHINR
\* with max_quantity as a string, ETHINR without the key "status"; and a
\* valid document of another market
BatchDocs ==
    { JArr(<<MarketItem("BTCINR", "I-BTC_INR", "Bitcoin", 90),
             BadMarketItem("ETHINR", "I-ETH_INR")>>),
      JArr(<<MarketItem("BTCINR", "I-BTC_INR", "Bitcoin", 90),
             WithoutField(MarketItem("ETHINR", "I-ETH_INR", "Ether", 80),
                          "status")>>),
      JArr(<<MarketItem("XRPINR", "I-XRP_INR", "Ripple", 70)>>) }

\* one element of /exchange/ticker, every decimal sent as the string p
TickerItem(market, p, ts) ==
    JObj(<< <<"ask", JStr(p)>>, <<"bid", JStr(p)>>,
            <<"change_24_hour", JStr(p)>>, <<"high", JStr(p)>>,
            <<"last_price", JStr(p)>>, <<"low", JStr(p)>>,
            <<"market", JStr(market)>>, <<"timestamp", Num(ts)>>,
            <<"volume", JStr(p)>> >>)

TickerDocs ==
    { JArr(<<TickerItem("BTCINR", "100", 1), TickerItem("ETHINR", "100", 1)>>),
      JArr(<<TickerItem("BTCINR", "200", 2), TickerItem("BTCINR_insta", "200", 2),
             TickerItem("ETHINR", "200", 2)>>) }

\* /market_data/orderbook
OrderBookDoc(bid, ask, qty) ==
    JObj(<< <<"asks", JObj(<< <<ask, JStr(qty)>> >>)>>,
            <<"bids", JObj(<< <<bid, JStr(qty)>> >>)>> >>)

OrderBookDocs == { OrderBookDoc("100", "101", "1"), OrderBookDoc("200", "201", "2") }

\* the decimal text of a number as the exchange writes it in a string: no
\* trailing zeros, no point when there is no fraction
RECURSIVE Fraction(_, _)
Fraction(n, w) ==
    IF n % 10 = 0 THEN Fraction(n \div 10, w - 1) ELSE Digits(n, w)

ShortDecimal(micro) ==
    NatToString(micro \div 1000000) \o
        (IF micro % 1000000 = 0 THEN "" ELSE "." \o Fraction(micro % 1000000, 6))

\* the seven decimal fields of a ticker item
DecimalFields ==
    {"change_24_hour", "high", "low", "volume", "last_price", "bid", "ask"}
\* the values a decimal field is tried with, in millionths: 1234.5, 100,
\* 0.25, 42.000001, 7
DecimalValues == {1234500000, 100000000, 250000, 42000001, 7000000}
\* how the exchange may send a decimal: as a JSON number or as a string
DecimalForms == {"number", "string"}

\* an item with the value of member k replaced
WithField(item, k, v) ==
    JObj([i \in 1..Len(item.kv) |->
            IF item.kv[i][1] = k THEN <<k, v>> ELSE item.kv[i]])

\* the ticker documents parseTickerDetails is called with on its own: one
\* item, one of its decimal fields sent as a number or as a string
TickerInputs == [field : DecimalFields, micro : DecimalValues, form : DecimalForms]
InputDoc(in) ==
    JArr(<<WithField(TickerItem("BTCINR", "100", 1), in.field,
                     IF in.form = "number" THEN JNum(in.micro)
                     ELSE JStr(ShortDecimal(in.micro)))>>)

\* the order-book bodies parseOrderBook is called with on its own, named by
\* what is wrong with them: text that is not JSON, the empty body of a failed
\* fetch, a document that is no object, and documents where a quantity is a
\* number instead of a string, first or second on its side
OrderBookForms ==
    {"well_formed", "garbage", "empty", "not_object", "bad_bid", "late_bad_bid",
     "bad_ask", "late_bad_ask"}
OrderBookInputs == [field : {""}, micro : {0}, form : OrderBookForms]
BookOf(bids, asks) == JObj(<< <<"asks", JObj(asks)>>, <<"bids", JObj(bids)>> >>)
InputBody(in) ==
    CASE in.form = "garbage" -> GarbageBody
      [] in.form = "empty" -> EmptyBody
      [] in.form = "not_object" -> JsonBody(JArr(<< >>))
      [] in.form = "bad_bid" ->
            JsonBody(BookOf(<< <<"100", JNum(1000000)>> >>,
                            << <<"101", JStr("1")>> >>))
      [] in.form = "late_bad_bid" ->
            JsonBody(BookOf(<< <<"100", JStr("1")>>, <<"99", JNum(1000000)>> >>,
                            << <<"101", JStr("1")>> >>))
      [] in.form = "bad_ask" ->
            JsonBody(BookOf(<< <<"100", JStr("1")>> >>,
                            << <<"101", JNum(1000000)>> >>))
      [] in.form = "late_bad_ask" ->
            JsonBody(BookOf(<< <<"100", JStr("1")>> >>,
                            << <<"101", JStr("1")>>, <<"102", JNum(1000000)>> >>))
      [] OTHER -> JsonBody(OrderBookDoc("100", "101", "1"))

\* the endpoints performRequest is called with
MarketsUrl == [path |-> "/exchange/v1/markets_details", pair |-> ""]
TickerUrl == [path |-> "/exchange/ticker", pair |-> ""]
OrderBookUrl(pair) == [path |-> "/market_data/orderbook", pair |-> pair]

\* the symbols a /livedata request may name: a market the exchange lists and
\* one it does not
Symbols == {"BTCINR", "DOGEINR"}

\* the surroundings the program is checked in unless a specification names
\* others
Exchange ==
    [markets |-> MarketDocs, tickers |-> TickerDocs, books |-> OrderBookDocs,
     symbols |-> Symbols]

\* ticker documents with an item that has no string under "market": the key
\* missing, or a number under it
NamelessDocs ==
    { JArr(<<TickerItem("BTCINR", "100", 1),
             WithoutField(TickerItem("ETHINR", "100", 1), "market"),
             TickerItem("BTCINR_insta", "100", 1)>>),
      JArr(<<WithField(TickerItem("ETHINR", "200", 2), "market", Num(7))>>) }

\* an exchange whose ticker documents are NamelessDocs
NamelessExchange ==
    [markets |-> MarketDocs, tickers |-> NamelessDocs, books |-> OrderBookDocs,
     symbols |-> Symbols]

\* an exchange with two markets, both asked for by clients
TwoPairExchange ==
    [markets |-> { JArr(<<MarketItem("BTCINR", "I-BTC_INR", "Bitcoin", 90),
                          MarketItem("ETHINR", "I-ETH_INR", "Ether", 80)>>) },
     tickers |-> { JArr(<<TickerItem("BTCINR_insta", "100", 1),
                          TickerItem("BTCINR", "100", 1)>>) },
     books |-> {OrderBookDoc("100", "101", "1")},
     symbols |-> {"BTCINR", "ETHINR"}]

\* an exchange with one market, and ticker documents that each lack a market
\* of the other
SmallExchange ==
    [markets |-> { JArr(<<MarketItem("BTCINR", "I-BTC_INR", "Bitcoin", 90)>>) },
     tickers |-> { JArr(<<TickerItem("BTCINR", "100", 1)>>),
                   JArr(<<TickerItem("BTCINR_insta", "200", 2),
                          TickerItem("ETHINR", "200", 2)>>) },
     books |-> {OrderBookDoc("100", "101", "1")},
     symbols |-> {"BTCINR"}]

\* an exchange whose market documents are BatchDocs
BatchExchange ==
    [markets |-> BatchDocs,
     tickers |-> {JArr(<<TickerItem("BTCINR", "100", 1),
                          TickerItem("BTCINR_insta", "100", 1)>>)},
     books |-> OrderBookDocs,
     symbols |-> Symbols]

(***************************************************************************)
(* The threads.                                                            *)
(***************************************************************************)
\* the thread that runs main() and CryptoAPIServer::start()
Main == 0
\* the detached threads startBackgroundRefresh spawns
Loops == 1..MaxLoops
\* the request tasks of httplib's pool, which run the three handlers
Reqs == (MaxLoops + 1)..(MaxLoops + NConc)
\* those of them that take requests when every endpoint is served
Serving == (MaxLoops + 1)..(MaxLoops + NReq)
\* the threads that run the refresh methods
Refreshers == {Main} \cup Loops
Threads == Refreshers \cup Reqs
\* curl_mutex when no thread holds it
NoThread == -1

VARIABLES
    pc,                  \* where each thread is
    is_running,          \* CryptoTracker::is_running
    market_details_map,  \* the Market Store
    market_pairs_map,    \* the PairIndex
    ticker_details_map,  \* the Ticker Store
    order_book_map,      \* the OrderBook Store
    curl_mutex,          \* SafeCurlWrapper::curl_mutex: its owner
    vec,                 \* per refreshing thread: the parsed vector its update
                         \* method was given
    idx,                 \* per refreshing thread: the item of vec it is at
    fetched,             \* per refreshing thread: the paths it requested since
                         \* start() began / in its current loop iteration
                         \* (history)
    req,                 \* per request task: the request it serves
    response,            \* per request task: the local `response` of
                         \* getOrderBook, kept until the request is answered
    reply,               \* per request task: the HTTP response being built
    out,                 \* per request task: the vector a list method builds
    cursor,              \* per request task: the keys its iteration has visited,
                         \* in order
    seen,                \* per request task: the contents the listed map has
                         \* had since the list method was entered that agree
                         \* with every entry read so far (history)
    latest,              \* per pair: the latest non-empty order-book response
                         \* performRequest has returned for it (history)
    stopped,             \* the background threads that were running when
                         \* stopBackgroundRefresh was called (history)
    input,               \* the argument of a parse method called on its own
    parsed,              \* and what the method returned
    env,                 \* the surroundings of this run: the documents the
                         \* exchange serves and the symbols clients ask for
    response_buffer,     \* SafeCurlWrapper::response_buffer, as the chunks
                         \* writeCallback appended
    call                 \* per calling thread: its call of performRequest
                         \* made on its own, step by step

stores == <<market_details_map, market_pairs_map, ticker_details_map,
            order_book_map>>
\* the locals of the refreshing threads and of the request tasks
refresh_locals == <<vec, idx, fetched>>
request_locals == <<req, response, reply, out, cursor, seen>>

history == <<latest, stopped>>
\* the state of a parse method called on its own
parse_locals == <<input, parsed>>

\* the state of performRequest called on its own
curl_locals == <<response_buffer, call>>

vars == <<pc, is_running, stores, curl_mutex, refresh_locals, request_locals,
          history, parse_locals, env, curl_locals>>

\* the documents an endpoint may answer with
DocsFor(url) ==
    CASE url.path = MarketsUrl.path -> env.markets
      [] url.path = TickerUrl.path -> env.tickers
      [] OTHER -> env.books

\* what curl_easy_perform may leave: a transport failure (res != CURLE_OK), a
\* body that is no JSON, or one of the endpoint's documents
TransportFailure == [kind |-> "failure"]
Outcomes(url) ==
    {TransportFailure, GarbageBody} \cup {JsonBody(d) : d \in DocsFor(url)}

\* an assignment that replaces the whole map by the one entry, m = {{k, v}}
PutAlone(m, k, v) == [x \in {k} |-> v]

\* m[k] = v of an unordered_map
Put(m, k, v) == [x \in DOMAIN m \cup {k} |-> IF x = k THEN v ELSE m[x]]

NoRequest == [endpoint |-> "none", symbol |-> "", pair |-> ""]
NoReply == [status |-> 0, body |-> JNull]
\* no parse method is being called on its own
NoInput == [field |-> "", micro |-> 0, form |-> "none"]
NotParsed == << >>

\* the program after construction
Constructed ==
    /\ pc = [t \in Threads |->
                IF t = Main THEN "rm_lock"
                ELSE IF t \in Loops THEN "unborn" ELSE "idle"]
    /\ is_running = FALSE
    /\ market_details_map = << >>
    /\ market_pairs_map = << >>
    /\ ticker_details_map = << >>
    /\ order_book_map = << >>
    /\ curl_mutex = NoThread
    /\ vec = [t \in Refreshers |-> << >>]
    /\ idx = [t \in Refreshers |-> 0]
    /\ fetched = [t \in Refreshers |-> {}]
    /\ req = [t \in Reqs |-> NoRequest]
    /\ response = [t \in Reqs |-> EmptyBody]
    /\ reply = [t \in Reqs |-> NoReply]
    /\ out = [t \in Reqs |-> << >>]
    /\ cursor = [t \in Reqs |-> << >>]
    /\ seen = [t \in Reqs |-> {}]
    /\ latest = << >>
    /\ stopped = {}

\* no parse method is called on its own
NoParse == input = NoInput /\ parsed = NotParsed

\* a thread outside performRequest
NoUrl == [path |-> "", pair |-> ""]
NoCall == [stage |-> "outside", url |-> NoUrl, written |-> 0,
           res |-> "none", returned |-> FALSE, result |-> << >>]
\* no thread calls performRequest on its own, and the buffer is empty
NoCalls == call = [t \in Reqs |-> NoCall] /\ response_buffer = << >>

Init == Constructed /\ NoParse /\ NoCalls /\ env = Exchange

\* std::terminate has not ended the process
Alive == pc[Main] # "terminated"
\* server.listen is running: requests are served
\* a server that accepts requests from its construction on
ListeningAtOnce == Alive

Listening == pc[Main] = "listen"

(***************************************************************************)
(* SafeCurlWrapper::performRequest, in two steps: taking curl_mutex; then  *)
(* curl_easy_perform and the return, which releases the mutex.  The        *)
(* response_buffer is written and copied out only while the mutex is held, *)
(* so the model keeps only the copy the call returns.                      *)
(***************************************************************************)
\* the path of the URL a thread waiting for the mutex is about to request
PathAt(t) ==
    CASE pc[t] = "rm_lock" -> MarketsUrl.path
      [] pc[t] = "rt_lock" -> TickerUrl.path
      [] pc[t] = "ob_lock" -> OrderBookUrl(req[t].pair).path

PerformStage(p) ==
    CASE p = "rm_lock" -> "rm_perform"
      [] p = "rt_lock" -> "rt_perform"
      [] p = "ob_lock" -> "ob_perform"

performRequestLock(t) ==
    /\ Alive
    /\ pc[t] \in {"rm_lock", "rt_lock", "ob_lock"}
    /\ curl_mutex = NoThread
    /\ curl_mutex' = t
    /\ fetched' = IF t \in Refreshers
                  THEN [fetched EXCEPT ![t] = @ \cup {PathAt(t)}]
                  ELSE fetched
    /\ pc' = [pc EXCEPT ![t] = PerformStage(pc[t])]
    /\ UNCHANGED <<is_running, stores, vec, idx, request_locals>>
    /\ UNCHANGED <<history, parse_locals, env, curl_locals>>

\* the string performRequest returns for an outcome of curl_easy_perform
Returned(outcome) == IF outcome.kind = "failure" THEN EmptyBody ELSE outcome

\* the second step, shared by the three callers: the mutex is released
performRequestReturn(t) ==
    /\ curl_mutex = t
    /\ curl_mutex' = NoThread

\* where a thread goes when the refresh method it called returns
AfterReturn(t, method) ==
    IF method = "refreshMarketData" THEN "rt_lock"
    ELSE IF t = Main THEN "start_bg" ELSE "sleep"

\* a background loop without the catch: the exception ends the thread
AfterThrowExits(t) == IF t = Main THEN "terminated" ELSE "exited"

\* where a thread goes when an exception leaves the refresh method: start()
\* and main() catch nothing, the loop's catch logs and goes round again
AfterThrow(t) == IF t = Main THEN "terminated" ELSE "loop"

(***************************************************************************)
(* CryptoTracker::refreshMarketData and updateMarketDetailsMap.            *)
(***************************************************************************)
\* the keys an iteration has visited
Visited(r) == {cursor[r][i] : i \in 1..Len(cursor[r])}

\* map contents m hold, for every key request task r has visited, the entry
\* it read there
Agrees(m, r) ==
    \A i \in 1..Len(cursor[r]) :
        cursor[r][i] \in DOMAIN m /\ m[cursor[r][i]] = out[r][i]

\* the history of the Ticker Store kept for the list methods in progress
Observe(newmap) ==
    [r \in Reqs |->
        IF pc[r] = "gt_iter" /\ Agrees(newmap, r) THEN seen[r] \cup {newmap}
        ELSE seen[r]]

\* what refreshMarketData may do with the response: "skip" (empty), "throw"
\* (json::parse or parseMarketDetails throws), or "update" with the vector
\* parseMarketDetails returned
MarketResponse(r) ==
    IF r.kind = "empty" THEN {[todo |-> "skip", value |-> << >>]}
    ELSE IF r.kind = "text" THEN {[todo |-> "throw", value |-> << >>]}
    ELSE { [todo |-> IF p.outcome # "ok" THEN "throw"
                     ELSE IF Len(p.value) = 0 THEN "skip"
                     ELSE "update",
            value |-> p.value] : p \in parseMarketDetailsOutcomes(r.json) }

\* performRequest returns into refreshMarketData
refreshMarketDataFetch(t) ==
    /\ Alive
    /\ pc[t] = "rm_perform"
    /\ performRequestReturn(t)
    /\ \E outcome \in Outcomes(MarketsUrl) :
       \E parse \in MarketResponse(Returned(outcome)) :
          IF parse.todo = "update"
          THEN /\ pc' = [pc EXCEPT ![t] = "rm_update"]
               /\ vec' = [vec EXCEPT ![t] = parse.value]
               /\ idx' = [idx EXCEPT ![t] = 1]
          ELSE /\ pc' = [pc EXCEPT ![t] =
                           IF parse.todo = "throw" THEN AfterThrow(t)
                           ELSE AfterReturn(t, "refreshMarketData")]
               /\ UNCHANGED <<vec, idx>>
    /\ UNCHANGED <<is_running, stores, fetched, request_locals>>
    /\ UNCHANGED <<history, parse_locals, env, curl_locals>>

\* a turn that keys the Market Store by the two short names, as the older
\* refresh in part_000 did
updateMarketDetailsMapByShortNames(t) ==
    /\ Alive
    /\ pc[t] = "rm_update"
    /\ LET detail == vec[t][idx[t]] IN
        /\ market_details_map' =
              Put(market_details_map,
                  detail["base_currency_short_name"]
                      \o detail["target_currency_short_name"], detail)
        /\ market_pairs_map' =
              Put(market_pairs_map, detail["coindcx_name"], detail["pair"])
    /\ IF idx[t] = Len(vec[t])
       THEN /\ pc' = [pc EXCEPT ![t] = AfterReturn(t, "refreshMarketData")]
            /\ idx' = [idx EXCEPT ![t] = 0]
            /\ vec' = [vec EXCEPT ![t] = << >>]
       ELSE /\ idx' = [idx EXCEPT ![t] = @ + 1]
            /\ UNCHANGED <<pc, vec>>
    /\ UNCHANGED <<is_running, ticker_details_map, order_book_map, curl_mutex,
                   fetched, request_locals>>
    /\ UNCHANGED <<history, parse_locals, env, curl_locals>>

\* one turn of the loop of updateMarketDetailsMap
updateMarketDetailsMap(t) ==
    /\ Alive
    /\ pc[t] = "rm_update"
    /\ LET detail == vec[t][idx[t]] IN
        /\ market_details_map' =
              Put(market_details_map, detail["coindcx_name"], detail)
        /\ market_pairs_map' =
              Put(market_pairs_map, detail["coindcx_name"], detail["pair"])
    /\ IF idx[t] = Len(vec[t])
       THEN /\ pc' = [pc EXCEPT ![t] = AfterReturn(t, "refreshMarketData")]
            /\ idx' = [idx EXCEPT ![t] = 0]
            /\ vec' = [vec EXCEPT ![t] = << >>]
       ELSE /\ idx' = [idx EXCEPT ![t] = @ + 1]
            /\ UNCHANGED <<pc, vec>>
    /\ UNCHANGED <<is_running, ticker_details_map, order_book_map, curl_mutex,
                   fetched, request_locals>>
    /\ UNCHANGED <<history, parse_locals, env, curl_locals>>

(***************************************************************************)
(* CryptoTracker::refreshTickerData and updateTickerDetailsMap.  The       *)
(* assignment ticker_details_map[detail.market] = detail is operator[]     *)
(* (which default-constructs a missing entry) followed by a member-wise    *)
(* copy in declaration order; with no lock around it other threads can see *)
(* the entry between two members.  The model shows one such point: after   *)
(* market .. volume, before last_price .. timestamp.                       *)
(***************************************************************************)
\* the entry after the first members of `detail` have been copied into it
FirstMembers(old, detail) ==
    [old EXCEPT !.market = detail.market,
                !.change_24_hour = detail.change_24_hour,
                !.high = detail.high, !.low = detail.low,
                !.volume = detail.volume]

\* the entry a key holds, as operator[] yields it
TickerEntry(k) ==
    IF k \in DOMAIN ticker_details_map THEN ticker_details_map[k]
    ELSE DefaultTickerDetails

\* an updateTickerDetailsMap that leaves no market out
NoExcludedMarket == "(none)"

\* the market updateTickerDetailsMap leaves out
ExcludedMarket == "BTCINR_insta"

\* what refreshTickerData does with the response
TickerResponse(r) ==
    IF r.kind = "empty" THEN "skip"
    ELSE IF r.kind = "text" THEN "throw"
    ELSE IF Len(parseTickerDetails(r.json)) = 0 THEN "skip"
    ELSE "update"

\* a refreshTickerData that empties the Ticker Store when the fetch brought
\* nothing it can use (a bulk replace that clears first)
refreshTickerDataClearing(t) ==
    /\ Alive
    /\ pc[t] = "rt_perform"
    /\ performRequestReturn(t)
    /\ \E outcome \in Outcomes(TickerUrl) :
        LET r == Returned(outcome)
            todo == TickerResponse(r)
        IN IF todo = "update"
           THEN /\ pc' = [pc EXCEPT ![t] = "rt_update"]
                /\ vec' = [vec EXCEPT ![t] = parseTickerDetails(r.json)]
                /\ idx' = [idx EXCEPT ![t] = 1]
                /\ UNCHANGED ticker_details_map
           ELSE /\ pc' = [pc EXCEPT ![t] =
                            IF todo = "throw" THEN AfterThrow(t)
                            ELSE AfterReturn(t, "refreshTickerData")]
                /\ ticker_details_map' = << >>
                /\ UNCHANGED <<vec, idx>>
    /\ UNCHANGED <<is_running, market_details_map, market_pairs_map,
                   order_book_map, fetched, request_locals>>
    /\ UNCHANGED <<history, parse_locals, env, curl_locals>>

\* performRequest returns into refreshTickerData
refreshTickerDataFetch(t) ==
    /\ Alive
    /\ pc[t] = "rt_perform"
    /\ performRequestReturn(t)
    /\ \E outcome \in Outcomes(TickerUrl) :
        LET r == Returned(outcome)
            todo == TickerResponse(r)
        IN IF todo = "update"
           THEN /\ pc' = [pc EXCEPT ![t] = "rt_update"]
                /\ vec' = [vec EXCEPT ![t] = parseTickerDetails(r.json)]
                /\ idx' = [idx EXCEPT ![t] = 1]
           ELSE /\ pc' = [pc EXCEPT ![t] =
                            IF todo = "throw" THEN AfterThrow(t)
                            ELSE AfterReturn(t, "refreshTickerData")]
                /\ UNCHANGED <<vec, idx>>
    /\ UNCHANGED <<is_running, stores, fetched, request_locals>>
    /\ UNCHANGED <<history, parse_locals, env, curl_locals>>

\* the loop of updateTickerDetailsMap moves to its next item, or the method
\* returns
NextTickerItem(t) ==
    IF idx[t] = Len(vec[t])
    THEN /\ pc' = [pc EXCEPT ![t] = AfterReturn(t, "refreshTickerData")]
         /\ idx' = [idx EXCEPT ![t] = 0]
         /\ vec' = [vec EXCEPT ![t] = << >>]
    ELSE /\ pc' = [pc EXCEPT ![t] = "rt_update"]
         /\ idx' = [idx EXCEPT ![t] = @ + 1]
         /\ UNCHANGED vec

\* an item of the excluded market is skipped
updateTickerDetailsMapSkip(t) ==
    /\ Alive
    /\ pc[t] = "rt_update"
    /\ vec[t][idx[t]].market = ExcludedMarket
    /\ NextTickerItem(t)
    /\ UNCHANGED <<is_running, stores, curl_mutex, fetched, request_locals>>
    /\ UNCHANGED <<history, parse_locals, env, curl_locals>>

\* the entry is found or created and the first members are copied
updateTickerDetailsMapBegin(t) ==
    /\ Alive
    /\ pc[t] = "rt_update"
    /\ LET detail == vec[t][idx[t]] IN
        /\ detail.market # ExcludedMarket
        /\ ticker_details_map' =
              Put(ticker_details_map, detail.market,
                  FirstMembers(TickerEntry(detail.market), detail))
    /\ seen' = Observe(ticker_details_map')
    /\ pc' = [pc EXCEPT ![t] = "rt_update_b"]
    /\ UNCHANGED <<is_running, market_details_map, market_pairs_map,
                   order_book_map, curl_mutex, refresh_locals,
                   req, response, reply, out, cursor>>
    /\ UNCHANGED <<history, parse_locals, env, curl_locals>>

\* the remaining members are copied
updateTickerDetailsMapEnd(t) ==
    /\ Alive
    /\ pc[t] = "rt_update_b"
    /\ ticker_details_map' =
          Put(ticker_details_map, vec[t][idx[t]].market, vec[t][idx[t]])
    /\ seen' = Observe(ticker_details_map')
    /\ NextTickerItem(t)
    /\ UNCHANGED <<is_running, market_details_map, market_pairs_map,
                   order_book_map, curl_mutex, fetched,
                   req, response, reply, out, cursor>>
    /\ UNCHANGED <<history, parse_locals, env, curl_locals>>

(***************************************************************************)
(* startBackgroundRefresh, stopBackgroundRefresh and the loop.             *)
(***************************************************************************)
Unborn == {l \in Loops : pc[l] = "unborn"}
NextLoop == CHOOSE l \in Unborn : \A m \in Unborn : l <= m

\* is_running = true and a new detached thread, which starts at the loop test
startBackgroundRefresh ==
    /\ is_running' = TRUE
    /\ pc' = [pc EXCEPT ![NextLoop] = "loop", ![Main] = "listen"]
    /\ UNCHANGED <<stores, curl_mutex, refresh_locals, request_locals>>
    /\ UNCHANGED <<history, parse_locals, env, curl_locals>>

\* CryptoAPIServer::start calls it once, then registers the handlers and
\* listens
StartServer ==
    /\ pc[Main] = "start_bg"
    /\ startBackgroundRefresh

\* a later call of the public method, while the server runs
CallStartBackgroundRefresh ==
    /\ Listening
    /\ Unborn # {}
    /\ startBackgroundRefresh

\* stopBackgroundRefresh: the flag is cleared, nothing is joined or awaited
stopBackgroundRefresh ==
    /\ Listening
    /\ is_running' = FALSE
    /\ stopped' = stopped \cup {l \in Loops : pc[l] \notin {"unborn", "exited"}}
    /\ UNCHANGED <<pc, stores, curl_mutex, refresh_locals, request_locals>>
    /\ UNCHANGED <<latest, parse_locals, env, curl_locals>>

\* while (is_running): the next iteration enters refreshTickerData, or the
\* thread ends
LoopTest(l) ==
    /\ Alive
    /\ pc[l] = "loop"
    /\ pc' = [pc EXCEPT ![l] = IF is_running THEN "rt_lock" ELSE "exited"]
    /\ fetched' = [fetched EXCEPT ![l] = {}]
    /\ UNCHANGED <<is_running, stores, curl_mutex, vec, idx, request_locals>>
    /\ UNCHANGED <<history, parse_locals, env, curl_locals>>

\* sleep_for(5 s) is over: the iteration has ended
SleepDone(l) ==
    /\ Alive
    /\ pc[l] = "sleep"
    /\ pc' = [pc EXCEPT ![l] = "loop"]
    /\ fetched' = [fetched EXCEPT ![l] = {}]
    /\ UNCHANGED <<is_running, stores, curl_mutex, vec, idx, request_locals>>
    /\ UNCHANGED <<history, parse_locals, env, curl_locals>>

(***************************************************************************)
(* The handlers of CryptoAPIServer::start and the methods they call.       *)
(***************************************************************************)
\* a json object built member by member: key -> value
Members(f) == [t |-> "object", members |-> f]
\* the value of system_clock::now(), left abstract
Now == "now"

\* convertToJson: an object with one string member per entry of the map
convertToJson(map) == [k \in DOMAIN map |-> JStr(map[k])]

\* the "market_details" member addMarketDetails makes of a MarketDetails
MarketPiece(d) ==
    [base_currency |-> d["base_currency_short_name"],
     target_currency |-> d["target_currency_short_name"],
     min_quantity |-> d["min_quantity"],
     max_quantity |-> d["max_quantity"],
     min_price |-> d["min_price"],
     max_price |-> d["max_price"]]

\* addMarketDetails: the member is added when the Market Store holds the name
addMarketDetails(response_json, market_name) ==
    IF market_name \in DOMAIN market_details_map
    THEN Put(response_json, "market_details",
             MarketPiece(market_details_map[market_name]))
    ELSE response_json

\* the "ticker_details" member addTickerDetails makes of a TickerDetails
TickerPiece(d) ==
    [change_24_hour |-> d.change_24_hour, last_price |-> d.last_price,
     bid |-> d.bid, ask |-> d.ask, high |-> d.high, low |-> d.low,
     volume |-> d.volume, timestamp |-> d.timestamp]

\* addTickerDetails: the member is added when the Ticker Store holds the name
addTickerDetails(response_json, market_name) ==
    IF market_name \in DOMAIN ticker_details_map
    THEN Put(response_json, "ticker_details",
             TickerPiece(ticker_details_map[market_name]))
    ELSE response_json

\* a handleDataRequest that adds the ticker details as well, read from the
\* Ticker Store while the background loop writes it
addBothDetails(response_json, market_name) ==
    addTickerDetails(addMarketDetails(response_json, market_name), market_name)

\* the details handleDataRequest adds after the order book (line 289): the
\* market details only; addTickerDetails has no caller
addDetails(response_json, market_name) ==
    addMarketDetails(response_json, market_name)

\* res.set_content(response_json.dump(2)) with the status left at its default
Ok(body) == [status |-> 200, body |-> body]
\* the handlers' catch block
ServerError(what) ==
    [status |-> 500,
     body |-> Members([error |-> what, request_timestamp |-> Now])]

\* the handler has set the response
Finish(r, answer) ==
    /\ pc' = [pc EXCEPT ![r] = "respond"]
    /\ reply' = [reply EXCEPT ![r] = answer]

LiveData(symbol, pair) ==
    [endpoint |-> "/livedata", symbol |-> symbol, pair |-> pair]

\* POST /livedata without the symbol parameter: the handler throws and its
\* catch answers 500
LiveDataMissingSymbol(r) ==
    /\ Listening
    /\ pc[r] = "idle"
    /\ req' = [req EXCEPT ![r] = LiveData("", "")]
    /\ Finish(r, ServerError("Missing 'symbol' parameter"))
    /\ UNCHANGED <<is_running, stores, curl_mutex, refresh_locals,
                   response, out, cursor, seen>>
    /\ UNCHANGED <<history, parse_locals, env, curl_locals>>

\* handleDataRequest for a name market_pairs_map does not hold: the default
\* constructed response_json (null) is returned and dumped
handleDataRequestUnknown(r) ==
    /\ Listening
    /\ pc[r] = "idle"
    /\ \E market_name \in env.symbols :
        /\ market_name \notin DOMAIN market_pairs_map
        /\ req' = [req EXCEPT ![r] = LiveData(market_name, "")]
    /\ Finish(r, Ok(JNull))
    /\ UNCHANGED <<is_running, stores, curl_mutex, refresh_locals,
                   response, out, cursor, seen>>
    /\ UNCHANGED <<history, parse_locals, env, curl_locals>>

\* handleDataRequest for a name market_pairs_map holds: the pair is looked up
\* and getOrderBook(pair) is entered
handleDataRequestKnown(r) ==
    /\ Listening
    /\ pc[r] = "idle"
    /\ \E market_name \in env.symbols :
        /\ market_name \in DOMAIN market_pairs_map
        /\ req' = [req EXCEPT ![r] =
                      LiveData(market_name, market_pairs_map[market_name])]
    /\ pc' = [pc EXCEPT ![r] = "ob_lock"]
    /\ UNCHANGED <<is_running, stores, curl_mutex, refresh_locals,
                   response, reply, out, cursor, seen>>
    /\ UNCHANGED <<history, parse_locals, env, curl_locals>>

\* performRequest returns into getOrderBook: an empty response is skipped,
\* else parseOrderBook's result is about to be stored
getOrderBookFetch(r) ==
    /\ Alive
    /\ pc[r] = "ob_perform"
    /\ performRequestReturn(r)
    /\ \E outcome \in Outcomes(OrderBookUrl(req[r].pair)) :
        /\ response' = [response EXCEPT ![r] = Returned(outcome)]
        /\ latest' = IF Returned(outcome).kind = "empty" THEN latest
                      ELSE Put(latest, req[r].pair, Returned(outcome))
        /\ pc' = [pc EXCEPT ![r] =
                    IF Returned(outcome).kind = "empty" THEN "read_bids"
                    ELSE "store_bids"]
    /\ UNCHANGED <<is_running, stores, refresh_locals, req, reply, out,
                   cursor, seen>>
    /\ UNCHANGED <<stopped, parse_locals, env, curl_locals>>

\* the entry a pair holds, as operator[] yields it
OrderBookEntry(pair) ==
    IF pair \in DOMAIN order_book_map THEN order_book_map[pair]
    ELSE EmptyOrderBook

\* a store that assigns the whole map, order_book_map = {{pair, order_book}},
\* instead of one entry
getOrderBookStoreWholeMap(r) ==
    /\ Alive
    /\ pc[r] = "store_bids"
    /\ order_book_map' =
          [p \in {req[r].pair} |->
              [EmptyOrderBook EXCEPT !.bids = parseOrderBook(response[r]).bids]]
    /\ pc' = [pc EXCEPT ![r] = "store_asks"]
    /\ UNCHANGED <<is_running, market_details_map, market_pairs_map,
                   ticker_details_map, curl_mutex, refresh_locals,
                   request_locals>>
    /\ UNCHANGED <<history, parse_locals, env, curl_locals>>

\* order_book_map[pair] = order_book: operator[], then bids is copied
getOrderBookStoreBids(r) ==
    /\ Alive
    /\ pc[r] = "store_bids"
    /\ order_book_map' =
          Put(order_book_map, req[r].pair,
              [OrderBookEntry(req[r].pair) EXCEPT
                  !.bids = parseOrderBook(response[r]).bids])
    /\ pc' = [pc EXCEPT ![r] = "store_asks"]
    /\ UNCHANGED <<is_running, market_details_map, market_pairs_map,
                   ticker_details_map, curl_mutex, refresh_locals,
                   request_locals>>
    /\ UNCHANGED <<history, parse_locals, env, curl_locals>>

\* then asks is copied, and getOrderBook returns
getOrderBookStoreAsks(r) ==
    /\ Alive
    /\ pc[r] = "store_asks"
    /\ order_book_map' =
          Put(order_book_map, req[r].pair,
              [OrderBookEntry(req[r].pair) EXCEPT
                  !.asks = parseOrderBook(response[r]).asks])
    /\ pc' = [pc EXCEPT ![r] = "read_bids"]
    /\ UNCHANGED <<is_running, market_details_map, market_pairs_map,
                   ticker_details_map, curl_mutex, refresh_locals,
                   request_locals>>
    /\ UNCHANGED <<history, parse_locals, env, curl_locals>>

\* response_json gets pair and request_timestamp, and the first element of
\* the order_book initializer is evaluated: order_book_map[pair].bids, where
\* operator[] creates the entry when the map does not hold the pair
handleDataRequestReadBids(r) ==
    /\ Alive
    /\ pc[r] = "read_bids"
    /\ order_book_map' =
          Put(order_book_map, req[r].pair, OrderBookEntry(req[r].pair))
    /\ reply' = [reply EXCEPT ![r] =
          [status |-> 0,
           body |-> Members(
              [pair |-> req[r].symbol, request_timestamp |-> Now,
               order_book |->
                  [bids |-> convertToJson(OrderBookEntry(req[r].pair).bids),
                   asks |-> convertToJson(EmptyMap)]])]]
    /\ pc' = [pc EXCEPT ![r] = "read_asks"]
    /\ UNCHANGED <<is_running, market_details_map, market_pairs_map,
                   ticker_details_map, curl_mutex, refresh_locals,
                   req, response, out, cursor, seen>>
    /\ UNCHANGED <<history, parse_locals, env, curl_locals>>

\* the second element of the initializer, order_book_map[pair].asks, then
\* the details are added and the response is returned and dumped
handleDataRequestReadAsks(r) ==
    /\ Alive
    /\ pc[r] = "read_asks"
    /\ order_book_map' =
          Put(order_book_map, req[r].pair, OrderBookEntry(req[r].pair))
    /\ LET book == [reply[r].body.members.order_book EXCEPT
                      !.asks = convertToJson(OrderBookEntry(req[r].pair).asks)]
           json == [reply[r].body.members EXCEPT !.order_book = book]
       IN Finish(r, Ok(Members(addDetails(json, req[r].symbol))))
    /\ UNCHANGED <<is_running, market_details_map, market_pairs_map,
                   ticker_details_map, curl_mutex, refresh_locals,
                   req, response, out, cursor, seen>>
    /\ UNCHANGED <<history, parse_locals, env, curl_locals>>

\* getAllPairs is entered: GET /pairs
getAllPairsBegin(r) ==
    /\ Listening
    /\ pc[r] = "idle"
    /\ req' = [req EXCEPT ![r] = [NoRequest EXCEPT !.endpoint = "/pairs"]]
    /\ pc' = [pc EXCEPT ![r] = "gp_iter"]
    /\ seen' = [seen EXCEPT ![r] = {market_pairs_map}]
    /\ UNCHANGED <<is_running, stores, curl_mutex, refresh_locals,
                   response, reply, out, cursor>>
    /\ UNCHANGED <<history, parse_locals, env, curl_locals>>

\* one turn of its range-for over market_pairs_map; the order an
\* unordered_map is visited in is not specified
getAllPairsStep(r) ==
    /\ Alive
    /\ pc[r] = "gp_iter"
    /\ \E pair \in DOMAIN market_pairs_map \ Visited(r) :
        /\ out' = [out EXCEPT ![r] = Append(@, pair)]
        /\ cursor' = [cursor EXCEPT ![r] = Append(@, pair)]
    /\ UNCHANGED <<pc, is_running, stores, curl_mutex, refresh_locals,
                   req, response, reply, seen>>
    /\ UNCHANGED <<history, parse_locals, env, curl_locals>>

\* a getAllPairs that may return before it has visited every entry
getAllPairsEndEarly(r) ==
    /\ Alive
    /\ pc[r] = "gp_iter"
    /\ Finish(r, Ok(Members([pairs |-> out[r]])))
    /\ UNCHANGED <<is_running, stores, curl_mutex, refresh_locals,
                   req, response, out, cursor, seen>>
    /\ UNCHANGED <<history, parse_locals, env, curl_locals>>

\* the iteration is over; the handler answers {"pairs": [...]}
getAllPairsEnd(r) ==
    /\ Alive
    /\ pc[r] = "gp_iter"
    /\ DOMAIN market_pairs_map \subseteq Visited(r)
    /\ Finish(r, Ok(Members([pairs |-> out[r]])))
    /\ UNCHANGED <<is_running, stores, curl_mutex, refresh_locals,
                   req, response, out, cursor, seen>>
    /\ UNCHANGED <<history, parse_locals, env, curl_locals>>

\* getAllTickerData is entered: GET /ticker
getAllTickerDataBegin(r) ==
    /\ Listening
    /\ pc[r] = "idle"
    /\ req' = [req EXCEPT ![r] = [NoRequest EXCEPT !.endpoint = "/ticker"]]
    /\ pc' = [pc EXCEPT ![r] = "gt_iter"]
    /\ seen' = [seen EXCEPT ![r] = {ticker_details_map}]
    /\ UNCHANGED <<is_running, stores, curl_mutex, refresh_locals,
                   response, reply, out, cursor>>
    /\ UNCHANGED <<history, parse_locals, env, curl_locals>>

\* one turn of its range-for over ticker_details_map: the entry is copied
getAllTickerDataStep(r) ==
    /\ Alive
    /\ pc[r] = "gt_iter"
    /\ \E ticker \in DOMAIN ticker_details_map \ Visited(r) :
        /\ out' = [out EXCEPT ![r] = Append(@, ticker_details_map[ticker])]
        /\ cursor' = [cursor EXCEPT ![r] = Append(@, ticker)]
        /\ seen' = [seen EXCEPT ![r] =
              {m \in @ : ticker \in DOMAIN m
                            /\ m[ticker] = ticker_details_map[ticker]}]
    /\ UNCHANGED <<pc, is_running, stores, curl_mutex, refresh_locals,
                   req, response, reply>>
    /\ UNCHANGED <<history, parse_locals, env, curl_locals>>

\* the object the /ticker handler makes of one TickerDetails
TickerJson(td) ==
    [symbol |-> td.market, last_traded_price |-> td.last_price,
     volume |-> td.volume, exchange_timestamp |-> td.timestamp,
     ask |-> td.ask, bid |-> td.bid, high |-> td.high, low |-> td.low,
     change_24_hour |-> td.change_24_hour, request_timestamp |-> Now]

\* the iteration is over; the handler answers the array
getAllTickerDataEnd(r) ==
    /\ Alive
    /\ pc[r] = "gt_iter"
    /\ DOMAIN ticker_details_map \subseteq Visited(r)
    /\ Finish(r, Ok(JArr([i \in 1..Len(out[r]) |-> TickerJson(out[r][i])])))
    /\ UNCHANGED <<is_running, stores, curl_mutex, refresh_locals,
                   req, response, out, cursor, seen>>
    /\ UNCHANGED <<history, parse_locals, env, curl_locals>>

\* the response is sent and the task is free for the next request
Respond(r) ==
    /\ Alive
    /\ pc[r] = "respond"
    /\ pc' = [pc EXCEPT ![r] = "idle"]
    /\ req' = [req EXCEPT ![r] = NoRequest]
    /\ reply' = [reply EXCEPT ![r] = NoReply]
    /\ out' = [out EXCEPT ![r] = << >>]
    /\ cursor' = [cursor EXCEPT ![r] = << >>]
    /\ seen' = [seen EXCEPT ![r] = {}]
    /\ response' = [response EXCEPT ![r] = EmptyBody]
    /\ UNCHANGED <<is_running, stores, curl_mutex, refresh_locals>>
    /\ UNCHANGED <<history, parse_locals, env, curl_locals>>

(***************************************************************************)
(* The program as main() runs it: start() refreshes once, starts one       *)
(* background loop and serves requests.  Nothing in it calls               *)
(* stopBackgroundRefresh or startBackgroundRefresh again.                  *)
(***************************************************************************)
Refresh ==
    \/ \E t \in Threads : performRequestLock(t)
    \/ refreshMarketDataFetch(Main)
    \/ updateMarketDetailsMap(Main)
    \/ \E t \in Refreshers :
          \/ refreshTickerDataFetch(t)
          \/ updateTickerDetailsMapSkip(t)
          \/ updateTickerDetailsMapBegin(t)
          \/ updateTickerDetailsMapEnd(t)
    \/ StartServer
    \/ \E l \in Loops : LoopTest(l) \/ SleepDone(l)

\* POST /livedata
Query(r) ==
    \/ LiveDataMissingSymbol(r)
    \/ handleDataRequestUnknown(r)
    \/ handleDataRequestKnown(r)
    \/ getOrderBookFetch(r)
    \/ getOrderBookStoreBids(r)
    \/ getOrderBookStoreAsks(r)
    \/ handleDataRequestReadBids(r)
    \/ handleDataRequestReadAsks(r)

\* GET /pairs
ListPairs(r) ==
    \/ getAllPairsBegin(r)
    \/ getAllPairsStep(r)
    \/ getAllPairsEnd(r)

\* GET /ticker
ListTickers(r) ==
    \/ getAllTickerDataBegin(r)
    \/ getAllTickerDataStep(r)
    \/ getAllTickerDataEnd(r)

Next ==
    \/ Refresh
    \/ \E r \in Serving : Query(r) \/ ListPairs(r) \/ ListTickers(r) \/ Respond(r)

Spec == Init /\ [][Next]_vars

(***************************************************************************)
(* The engine with its two public methods called while the server runs,    *)
(* and /pairs requests.                                                    *)
(***************************************************************************)
NextApi ==
    \/ Refresh
    \/ stopBackgroundRefresh
    \/ CallStartBackgroundRefresh
    \/ \E r \in Serving : ListPairs(r) \/ Respond(r)

SpecApi == Init /\ [][NextApi]_vars

(***************************************************************************)
(* The program serving /livedata requests only.                            *)
(***************************************************************************)
NextQuery ==
    \/ Refresh
    \/ \E r \in Serving : Query(r) \/ Respond(r)

SpecQuery == Init /\ [][NextQuery]_vars

(***************************************************************************)
(* The program serving /livedata requests only, on all its request tasks.  *)
(***************************************************************************)
NextConcurrent ==
    \/ Refresh
    \/ \E r \in Reqs : Query(r) \/ Respond(r)

SpecConcurrent == Init /\ [][NextConcurrent]_vars

(***************************************************************************)
(* The program serving /ticker requests only.                              *)
(***************************************************************************)
NextTicker ==
    \/ Refresh
    \/ \E r \in Serving : ListTickers(r) \/ Respond(r)

SpecTicker == Init /\ [][NextTicker]_vars

(***************************************************************************)
(* The same under the scheduling the threads get: a thread that can take   *)
(* its next step takes it; a thread waiting for curl_mutex gets it if it   *)
(* is free again and again.  No request has to arrive.                     *)
(***************************************************************************)
ThreadStep(t) ==
    \/ refreshMarketDataFetch(t)
    \/ updateMarketDetailsMap(t)
    \/ refreshTickerDataFetch(t)
    \/ updateTickerDetailsMapSkip(t)
    \/ updateTickerDetailsMapBegin(t)
    \/ updateTickerDetailsMapEnd(t)
    \/ (t = Main /\ StartServer)
    \/ LoopTest(t)
    \/ SleepDone(t)
    \/ getOrderBookFetch(t)
    \/ getOrderBookStoreBids(t)
    \/ getOrderBookStoreAsks(t)
    \/ handleDataRequestReadBids(t)
    \/ handleDataRequestReadAsks(t)

Fairness ==
    \A t \in Threads :
        /\ WF_vars(ThreadStep(t))
        /\ SF_vars(performRequestLock(t))

SpecFair == SpecQuery /\ Fairness

(***************************************************************************)
(* parseTickerDetails called on its own, on one document.                  *)
(***************************************************************************)
InitParse ==
    /\ Constructed
    /\ input \in TickerInputs \cup OrderBookInputs
    /\ parsed = NotParsed
    /\ env = Exchange
    /\ NoCalls

CallParseTickerDetails ==
    /\ input \in TickerInputs
    /\ parsed = NotParsed
    /\ parsed' = parseTickerDetails(InputDoc(input))
    /\ UNCHANGED <<pc, is_running, stores, curl_mutex, refresh_locals,
                   request_locals, history, input, env, curl_locals>>

\* the order book parseOrderBook returns, held as the one element of parsed
CallParseOrderBook ==
    /\ input \in OrderBookInputs
    /\ parsed = NotParsed
    /\ parsed' = <<parseOrderBook(InputBody(input))>>
    /\ UNCHANGED <<pc, is_running, stores, curl_mutex, refresh_locals,
                   request_locals, history, input, env, curl_locals>>

NextParse == CallParseTickerDetails \/ CallParseOrderBook

SpecParse == InitParse /\ [][NextParse]_vars

(***************************************************************************)
(* The program serving /pairs requests only.                               *)
(***************************************************************************)
NextPairs ==
    \/ Refresh
    \/ \E r \in Serving : ListPairs(r) \/ Respond(r)

\* the list of pairs when the market documents hold invalid items
InitBatch == Constructed /\ NoParse /\ NoCalls /\ env = BatchExchange
SpecBatch == InitBatch /\ [][NextPairs]_vars

\* the list of tickers when the ticker documents hold nameless items
InitNameless == Constructed /\ NoParse /\ NoCalls /\ env = NamelessExchange
SpecNameless == InitNameless /\ [][NextTicker]_vars

\* the program serving queries for two markets
InitTwoPairs == Constructed /\ NoParse /\ NoCalls /\ env = TwoPairExchange
SpecTwoPairs == InitTwoPairs /\ [][NextQuery]_vars

\* the whole program against the small exchange
InitSmall == Constructed /\ NoParse /\ NoCalls /\ env = SmallExchange
SpecSmall == InitSmall /\ [][Next]_vars

(***************************************************************************)
(* SafeCurlWrapper::performRequest called on its own by several threads,   *)
(* step by step.  The program above shows a call by its first step, the    *)
(* lock, and its last, the return; here the buffer the calls share is      *)
(* shown between the two.  A response is the chunks curl hands to          *)
(* writeCallback, each marked with the URL it answers.                     *)
(***************************************************************************)
CurlUrls == {MarketsUrl, TickerUrl}
Chunk(url, n) == [url |-> url, part |-> n]
CompleteResponse(url) == [n \in 1..MaxChunks |-> Chunk(url, n)]

\* a plain entry, without the lock_guard
performRequestEnterUnlocked(t) ==
    /\ call[t].stage = "outside"
    /\ \E url \in CurlUrls :
        call' = [call EXCEPT ![t] = [NoCall EXCEPT !.stage = "locked",
                                                   !.url = url]]
    /\ UNCHANGED <<pc, is_running, stores, curl_mutex, refresh_locals,
                   request_locals, history, parse_locals, env, response_buffer>>

\* std::lock_guard<std::mutex> lock(curl_mutex)
performRequestEnter(t) ==
    /\ call[t].stage = "outside"
    /\ curl_mutex = NoThread
    /\ curl_mutex' = t
    /\ \E url \in CurlUrls :
        call' = [call EXCEPT ![t] = [NoCall EXCEPT !.stage = "locked",
                                                   !.url = url]]
    /\ UNCHANGED <<pc, is_running, stores, refresh_locals, request_locals,
                   history, parse_locals, env, response_buffer>>

\* the lock_guard's destructor
Unlock(t) == curl_mutex' = IF curl_mutex = t THEN NoThread ELSE curl_mutex

\* curl_easy_init returns null: "" is returned
performRequestInitFails(t) ==
    /\ call[t].stage = "locked"
    /\ call' = [call EXCEPT ![t].stage = "outside", ![t].res = "no handle",
                            ![t].returned = TRUE, ![t].result = << >>]
    /\ Unlock(t)
    /\ UNCHANGED <<pc, is_running, stores, refresh_locals, request_locals,
                   history, parse_locals, env, response_buffer>>

\* response_buffer.clear() and the options; curl_easy_perform begins
performRequestClear(t) ==
    /\ call[t].stage = "locked"
    /\ response_buffer' = << >>
    /\ call' = [call EXCEPT ![t].stage = "perform"]
    /\ UNCHANGED <<pc, is_running, stores, curl_mutex, refresh_locals,
                   request_locals, history, parse_locals, env>>

\* curl_easy_perform hands the next chunk of the response to writeCallback
writeCallback(t) ==
    /\ call[t].stage = "perform"
    /\ call[t].written < MaxChunks
    /\ response_buffer' =
          Append(response_buffer, Chunk(call[t].url, call[t].written + 1))
    /\ call' = [call EXCEPT ![t].written = @ + 1]
    /\ UNCHANGED <<pc, is_running, stores, curl_mutex, refresh_locals,
                   request_locals, history, parse_locals, env>>

\* curl_easy_perform returns CURLE_OK after the last chunk: response_buffer
\* is returned
performRequestOk(t) ==
    /\ call[t].stage = "perform"
    /\ call[t].written = MaxChunks
    /\ call' = [call EXCEPT ![t].stage = "outside", ![t].res = "CURLE_OK",
                            ![t].returned = TRUE,
                            ![t].result = response_buffer]
    /\ Unlock(t)
    /\ UNCHANGED <<pc, is_running, stores, refresh_locals, request_locals,
                   history, parse_locals, env, response_buffer>>

\* curl_easy_perform returns an error, at any point of the transfer: "" is
\* returned
performRequestFails(t) ==
    /\ call[t].stage = "perform"
    /\ call' = [call EXCEPT ![t].stage = "outside", ![t].res = "error",
                            ![t].returned = TRUE, ![t].result = << >>]
    /\ Unlock(t)
    /\ UNCHANGED <<pc, is_running, stores, refresh_locals, request_locals,
                   history, parse_locals, env, response_buffer>>

performRequest(t) ==
    \/ performRequestEnter(t) \/ performRequestInitFails(t)
    \/ performRequestClear(t) \/ writeCallback(t)
    \/ performRequestOk(t) \/ performRequestFails(t)

InitCurl == Constructed /\ NoParse /\ NoCalls /\ env = Exchange
NextCurl == \E t \in Reqs : performRequest(t)
SpecCurl == InitCurl /\ [][NextCurl]_vars

SpecPairs == Init /\ [][NextPairs]_vars

(***************************************************************************)
(* The claims.                                                             *)
(***************************************************************************)
\* the whole records the exchange's documents decode to
WholeMarketRecords ==
    UNION {{parseMarketDetails(doc).value[i] :
               i \in 1..Len(parseMarketDetails(doc).value)} : doc \in env.markets}
WholeTickerRecords ==
    UNION {{parseTickerDetails(doc)[i] :
               i \in 1..Len(parseTickerDetails(doc))} : doc \in env.tickers}

\* request task r is answering a /livedata request with a composed snapshot
Snapshot(r) ==
    /\ pc[r] = "respond"
    /\ req[r].endpoint = "/livedata"
    /\ reply[r].status = 200
    /\ reply[r].body.t = "object"

\* C1: a refresh that fails (the fetch returns the empty body of a transport
\* failure, or the body cannot be decoded) leaves the Market Store, the
\* PairIndex, the Ticker Store and the OrderBook Store exactly as they were:
\* the step in which refreshMarketData or refreshTickerData learns the outcome
\* and does not go on to its update method changes no store.
C1_FailedRefreshLeavesStores ==
    [][\A t \in Refreshers :
          (/\ pc[t] \in {"rm_perform", "rt_perform"}
           /\ pc'[t] \notin {pc[t], "rm_update", "rt_update"})
          => UNCHANGED stores]_vars

\* C1 witness: a background iteration has just ended in a decode failure
\* while the Market Store and the Ticker Store hold records
C1_FailedRefreshSeen ==
    \E l \in Loops :
        /\ pc[l] = "loop"
        /\ fetched[l] = {TickerUrl.path}
        /\ ticker_details_map # << >>
        /\ market_details_map # << >>

\* C2: every record a /livedata query puts into its response while the
\* background loop rewrites the Ticker Store is a whole record of one
\* document: the market details are those of one decoded market item, and
\* ticker details (when a response carries them) those of one decoded ticker
\* item, never some members of one and some of another.
C2_QueryReadsWholeRecords ==
    \A r \in Reqs :
        Snapshot(r) =>
            LET m == reply[r].body.members IN
            /\ "market_details" \in DOMAIN m =>
                  \E d \in WholeMarketRecords :
                      /\ d["coindcx_name"] = req[r].symbol
                      /\ m["market_details"] = MarketPiece(d)
            /\ "ticker_details" \in DOMAIN m =>
                  \E d \in WholeTickerRecords :
                      /\ d.market = req[r].symbol
                      /\ m["ticker_details"] = TickerPiece(d)

\* C2 witness: a query has composed its response for a market whose Ticker
\* Store record the background loop has half written
C2_QueryDuringReplace ==
    \E r \in Reqs, l \in Loops :
        /\ Snapshot(r)
        /\ "market_details" \in DOMAIN reply[r].body.members
        /\ pc[l] = "rt_update_b"
        /\ vec[l][idx[l]].market = req[r].symbol
        /\ ticker_details_map[req[r].symbol] \notin WholeTickerRecords

\* C3: a /livedata query for a name the PairIndex does not hold is answered
\* with an explicit error, not with a success status; no order book is
\* fetched for the empty pair symbol and the OrderBook Store gets no entry
\* under the empty symbol.
C3_UnknownMarketExplicit ==
    /\ \A r \in Reqs :
          (/\ pc[r] = "respond"
           /\ req[r].endpoint = "/livedata"
           /\ req[r].symbol # ""
           /\ req[r].symbol \notin DOMAIN market_pairs_map)
          => reply[r].status # 200
    /\ \A r \in Reqs : pc[r] \in {"ob_lock", "ob_perform"} => req[r].pair # ""
    /\ "" \notin DOMAIN order_book_map

\* C4: once stopBackgroundRefresh has returned (and the loop has not been
\* started again) no background thread writes a store, an iteration that was
\* in flight at the stop included; so /pairs keeps returning the cached set.
C4_NoWriteAfterStop ==
    [][(Listening /\ ~is_running /\ ~is_running')
          => UNCHANGED <<market_details_map, market_pairs_map,
                         ticker_details_map>>]_vars

\* C5: when the order-book fetch of a /livedata query fails in transport
\* (empty body) or the body is no JSON, the query is answered as a failure,
\* not with a success status.
C5_OrderBookFailureSurfaced ==
    \A r \in Reqs :
        (/\ pc[r] = "respond"
         /\ req[r].endpoint = "/livedata"
         /\ req[r].pair # ""
         /\ response[r].kind # "json")
        => reply[r].status # 200

\* C6: every iteration of the background loop requests the market-detail
\* document as well as the ticker document: a loop that has reached its
\* sleep has fetched both.
C6_CycleFetchesBoth ==
    \A l \in Loops :
        pc[l] = "sleep" => {MarketsUrl.path, TickerUrl.path} \subseteq fetched[l]

\* C7: a failure of the market-detail refresh does not keep the ticker
\* refresh that follows it from running: start() never ends before it has
\* requested the ticker document.
C7_TickerRefreshRunsAnyway ==
    (MarketsUrl.path \in fetched[Main] /\ pc[Main] \notin {"rm_perform", "rm_update"})
        => (pc[Main] = "rt_lock" \/ TickerUrl.path \in fetched[Main])

\* C8: the vector getAllTickerData returns equals the contents the Ticker
\* Store had at one instant between the call and the return.
C8_ListIsPointInTime ==
    \A r \in Reqs :
        (pc[r] = "respond" /\ req[r].endpoint = "/ticker" /\ reply[r].status = 200)
        => \E m \in seen[r] : DOMAIN m = Visited(r) /\ Agrees(m, r)

\* C9: the response composed for a known market name holds the ticker
\* details whenever the Ticker Store holds the name, the market details
\* whenever the Market Store holds it, and the order book in any case.
C9_ResponseHasPresentPieces ==
    [][\A r \in Reqs :
          (pc[r] = "read_asks" /\ pc'[r] = "respond") =>
              LET m == reply'[r].body.members IN
              /\ "order_book" \in DOMAIN m
              /\ req[r].symbol \in DOMAIN market_details_map
                    => "market_details" \in DOMAIN m
              /\ req[r].symbol \in DOMAIN ticker_details_map
                    => "ticker_details" \in DOMAIN m]_vars

\* C10: a pair gets an entry in the OrderBook Store only when a fetch of that
\* pair's order book succeeded and decoded: an entry appears only as the
\* store of a body json::parse accepted.
C10_EntryOnlyAfterSuccess ==
    [][\A p \in DOMAIN order_book_map' \ DOMAIN order_book_map :
          \E r \in Reqs :
              /\ pc[r] = "store_bids"
              /\ req[r].pair = p
              /\ response[r].kind = "json"]_vars

\* C11: the Ticker Store never holds an entry keyed by the insta-settlement
\* market BTCINR_insta, whatever ticker documents were refreshed from, and no
\* record getAllTickerData has copied is of that market.
C11_InstaNeverStored ==
    /\ "BTCINR_insta" \notin DOMAIN ticker_details_map
    /\ \A r \in Reqs : \A i \in 1..Len(out[r]) :
          req[r].endpoint = "/ticker" => out[r][i].market # "BTCINR_insta"

\* C11 witness: updateTickerDetailsMap has gone past an item of that market
\* in the document it is storing
C11_InstaItemPassed ==
    \E t \in Refreshers :
        /\ pc[t] \in {"rt_update", "rt_update_b"}
        /\ \E i \in 1..(idx[t] - 1) : vec[t][i].market = "BTCINR_insta"

\* the market-detail documents parseMarketDetails accepts, and the records
\* and names of one
ValidMarketDocs == {doc \in env.markets : parseMarketDetails(doc).outcome = "ok"}
RecordsOf(doc) ==
    {parseMarketDetails(doc).value[i] : i \in 1..Len(parseMarketDetails(doc).value)}
PairNames(doc) == {d["coindcx_name"] : d \in RecordsOf(doc)}

\* C12: once refreshMarketData has stored a valid market-detail document,
\* the pairs a /pairs request returns are exactly the canonical pair names of
\* that document, each once, none missing and none extra (and when no refresh
\* has succeeded, none).
C12_PairsRoundTrip ==
    \A r \in Reqs :
        (pc[r] = "respond" /\ req[r].endpoint = "/pairs") =>
            LET listed == {out[r][i] : i \in 1..Len(out[r])} IN
            /\ reply[r] = Ok(Members([pairs |-> out[r]]))
            /\ Cardinality(listed) = Len(out[r])
            /\ \/ listed = {} /\ market_details_map = << >>
               \/ \E doc \in ValidMarketDocs :
                     /\ \A d \in RecordsOf(doc) :
                           /\ d["coindcx_name"] \in DOMAIN market_details_map
                           /\ market_details_map[d["coindcx_name"]] = d
                     /\ listed = PairNames(doc)

\* C12 witness: a /pairs request is answered with the two names of the
\* document that was stored
C12_PairsListed ==
    \E r \in Reqs :
        /\ pc[r] = "respond"
        /\ req[r].endpoint = "/pairs"
        /\ {out[r][i] : i \in 1..Len(out[r])} = {"BTCINR", "ETHINR"}

IterationOver(l) == pc[l] \in {"loop", "sleep"} /\ fetched[l] # {}

C15_SleepBetweenAttempts ==
    [][\A l \in Loops :
          (pc[l] = "loop" /\ pc'[l] = "rt_lock") => fetched[l] = {}]_vars

\* the order book of a fetched document, as a response shows it
BookJson(doc) ==
    [bids |-> convertToJson(parseOrderBook(JsonBody(doc)).bids),
     asks |-> convertToJson(parseOrderBook(JsonBody(doc)).asks)]

\* C16: the bids and the asks of the order book in one /livedata response
\* come from the same fetched order book: no response has the bids of one
\* fetched document and the asks of another.
C16_BidsAndAsksOfOneBook ==
    \A r \in Reqs :
        Snapshot(r) =>
            \A d1, d2 \in OrderBookDocs :
                (/\ reply[r].body.members["order_book"].bids = BookJson(d1).bids
                 /\ reply[r].body.members["order_book"].asks = BookJson(d2).asks)
                => d1 = d2

\* a thread is inside a write of the Ticker Store / of the OrderBook Store
WritingTickerStore(t) == pc[t] = "rt_update_b"
WritingOrderBookStore(r) == pc[r] \in {"store_bids", "store_asks"}

\* C17: the stores serialize their reads and writes: while a background
\* thread is inside a write of the Ticker Store no request task is inside
\* getAllTickerData, and no two request tasks are inside a write of the
\* OrderBook Store at the same time.
C17_StoresSerialized ==
    /\ \A t \in Loops, r \in Reqs : ~(WritingTickerStore(t) /\ pc[r] = "gt_iter")
    /\ \A a, b \in Reqs :
          (WritingOrderBookStore(a) /\ WritingOrderBookStore(b)) => a = b

\* a request task is inside getOrderBook for pair p
Refreshing(p) ==
    \E r \in Reqs :
        /\ req[r].pair = p
        /\ pc[r] \in {"ob_lock", "ob_perform", "store_bids", "store_asks"}

\* C18: the later write wins: whenever no request task is refreshing a
\* pair's order book, the OrderBook Store holds for that pair the order book
\* of the response that was fetched last.
C18_LaterFetchWins ==
    \A p \in DOMAIN latest :
        ~Refreshing(p) =>
            /\ p \in DOMAIN order_book_map
            /\ order_book_map[p] = parseOrderBook(latest[p])

\* C19: a network fetch blocks only the task that issued it: a request task
\* that is about to fetch an order book never has to wait for the fetch of
\* another thread, that is, it never finds curl_mutex held (the mutex is held
\* exactly while its owner's curl_easy_perform is in flight).
C19_FetchBlocksOnlyItsTask ==
    /\ \A t \in Threads :
          curl_mutex = t <=> pc[t] \in {"rm_perform", "rt_perform", "ob_perform"}
    /\ \A r \in Reqs : pc[r] = "ob_lock" => curl_mutex = NoThread

\* C20: Stopped is terminal: a background thread that was running when
\* stopBackgroundRefresh was called begins no new refresh cycle afterwards,
\* whatever is called later, startBackgroundRefresh included.
C20_StoppedIsTerminal ==
    [][\A l \in stopped : ~(pc[l] = "loop" /\ pc'[l] = "rt_lock")]_vars


(***************************************************************************)
(* C21                                                                     *)
(***************************************************************************)
\* the order-book bodies that are not a well-formed order book
MalformedForms == OrderBookForms \ {"well_formed"}

\* C21: parseOrderBook called with a malformed document returns the empty
\* order book, bids and asks both empty, whatever is wrong with the document;
\* a document with well-formed bids and a number among the quantities of its
\* asks included.
C21_MalformedBookIsEmpty ==
    (input \in OrderBookInputs /\ input.form \in MalformedForms
        /\ parsed # NotParsed)
    => parsed = <<EmptyOrderBook>>

\* parseOrderBook has returned from a document whose bids are well formed and
\* whose asks hold a quantity that is no string
C21_BadAskParsed ==
    /\ input \in OrderBookInputs /\ input.form \in {"bad_ask", "late_bad_ask"}
    /\ parsed # NotParsed

(***************************************************************************)
(* C22                                                                     *)
(***************************************************************************)
\* the coindcx_name of the items of a document that carry one
NamesOf(doc) ==
    {At(Elements(doc)[i], "coindcx_name").s :
        i \in {i \in 1..Len(Elements(doc)) :
                 /\ Elements(doc)[i].t = "object"
                 /\ Contains(Elements(doc)[i], "coindcx_name")
                 /\ At(Elements(doc)[i], "coindcx_name").t = "string"}}
\* the markets only documents with an invalid item name
OnlyInInvalidDocs ==
    UNION {NamesOf(doc) : doc \in env.markets \ ValidMarketDocs}
        \ UNION {NamesOf(doc) : doc \in ValidMarketDocs}

C23_NoNamelessRecord ==
    \A k \in DOMAIN ticker_details_map :
        k # "" /\ ticker_details_map[k].market # ""

\* a ticker refresh has gone through a document with a nameless item
C23_NamelessItemPassed ==
    \E t \in Refreshers :
        /\ pc[t] \in {"rt_update", "rt_update_b"}
        /\ \E i \in 1..(idx[t] - 1) : vec[t][i].market = ""

(***************************************************************************)
(* C24                                                                     *)
(***************************************************************************)
\* C24: whenever the main thread is not inside updateMarketDetailsMap, that
\* is after every completed market refresh and after any sequence of
\* queries, the PairIndex and the Market Store have the same keys, and the
\* PairIndex holds under each key the pair field of the MarketDetail the
\* Market Store holds under it.
C24_PairIndexMirrorsMarkets ==
    pc[Main] # "rm_update"
    => /\ DOMAIN market_pairs_map = DOMAIN market_details_map
       /\ \A k \in DOMAIN market_pairs_map :
            market_pairs_map[k] = market_details_map[k]["pair"]

\* a market refresh has filled the stores and a query for a listed market is
\* about to be answered
C24_QueryAfterRefresh ==
    /\ market_pairs_map # << >>
    /\ \E r \in Serving :
        /\ pc[r] = "respond"
        /\ req[r].endpoint = "/livedata"
        /\ req[r].symbol \in DOMAIN market_pairs_map

(***************************************************************************)
(* C25                                                                     *)
(***************************************************************************)
\* the request task r is inside getOrderBook or reading the entry back
InOrderBookOf(r) ==
    /\ req[r].endpoint = "/livedata"
    /\ pc[r] \in {"ob_lock", "ob_perform", "store_bids", "store_asks",
                  "read_bids", "read_asks"}

\* C25: an on-demand order-book refresh overwrites only the entry of the pair
\* it was called for.  Every step of a /livedata request between entering
\* getOrderBook and having read the entry back leaves the entries of all
\* other pairs, the Market Store, the PairIndex and the Ticker Store as they
\* were, and adds no key but its pair; and nothing else changes the
\* OrderBook Store.
C25_OrderBookRefreshIsLocal ==
    [][/\ \A r \in Serving :
            (InOrderBookOf(r) /\ pc'[r] # pc[r])
            => /\ \A p \in DOMAIN order_book_map \ {req[r].pair} :
                    /\ p \in DOMAIN order_book_map'
                    /\ order_book_map'[p] = order_book_map[p]
               /\ DOMAIN order_book_map'
                    \subseteq DOMAIN order_book_map \cup {req[r].pair}
               /\ market_details_map' = market_details_map
               /\ market_pairs_map' = market_pairs_map
               /\ ticker_details_map' = ticker_details_map
       /\ order_book_map' # order_book_map
            => \E r \in Serving : InOrderBookOf(r) /\ pc'[r] # pc[r]]_vars

\* a refresh of one pair has stored its bids while the store holds the
\* filled entry of another pair
C25_OtherPairStored ==
    \E r \in Serving :
        /\ pc[r] = "store_asks"
        /\ \E p \in DOMAIN order_book_map \ {req[r].pair} :
              order_book_map[p] # EmptyOrderBook

(***************************************************************************)
(* C26                                                                     *)
(***************************************************************************)
\* the request task r has a request in hand
Handling(r) == pc[r] # "idle" \/ req[r] # NoRequest

\* C26: no query, list-pairs or list-tickers request is handled before the
\* main thread has requested the market details and the tickers and has
\* left refreshMarketData and refreshTickerData: the stores a handler reads
\* are the ones the startup refresh left.
C26_RefreshBeforeServing ==
    (\E r \in Reqs : Handling(r))
    => /\ pc[Main] = "listen"
       /\ {MarketsUrl.path, TickerUrl.path} \subseteq fetched[Main]

\* a request is being handled
C26_RequestInHand == \E r \in Serving : Handling(r) /\ pc[r] = "respond"

(***************************************************************************)
(* C27                                                                     *)
(***************************************************************************)
\* the background threads that have been started and have not ended
LiveLoops == {l \in Loops : pc[l] \notin {"unborn", "exited"}}

\* C27: whatever sequence of startBackgroundRefresh and
\* stopBackgroundRefresh calls is made, at most one background loop thread
\* is alive at any time.
C27_AtMostOneLoop == Cardinality(LiveLoops) <= 1

\* startBackgroundRefresh has been called a second time
C27_StartedTwice == Cardinality(Loops \ Unborn) >= 2

(***************************************************************************)
(* C28                                                                     *)
(***************************************************************************)
\* thread t is in the turn of updateTickerDetailsMap that assigns key k
AssigningTicker(t, k) ==
    /\ pc[t] \in {"rt_update", "rt_update_b"}
    /\ vec[t][idx[t]].market = k

\* C28: the key set of every store only grows: no step of a refresh, of an
\* order-book fetch or of a list method takes a key out of the Market Store,
\* the PairIndex, the Ticker Store or the OrderBook Store; and a ticker
\* record changes only in the turn of updateTickerDetailsMap for an item of
\* its market, so a market missing from a later document keeps its last
\* stored record.
C28_KeysOnlyGrow ==
    [][/\ DOMAIN market_details_map \subseteq DOMAIN market_details_map'
       /\ DOMAIN market_pairs_map \subseteq DOMAIN market_pairs_map'
       /\ DOMAIN ticker_details_map \subseteq DOMAIN ticker_details_map'
       /\ DOMAIN order_book_map \subseteq DOMAIN order_book_map'
       /\ \A k \in DOMAIN ticker_details_map :
            ticker_details_map'[k] # ticker_details_map[k]
            => \E t \in Refreshers : AssigningTicker(t, k)]_vars

\* a ticker refresh is at the last item of a document that lacks a market
\* the Ticker Store holds
C28_LaterDocLacksKey ==
    \E t \in Refreshers :
        /\ pc[t] = "rt_update_b"
        /\ idx[t] = Len(vec[t])
        /\ \E k \in DOMAIN ticker_details_map :
              \A i \in 1..Len(vec[t]) : vec[t][i].market # k

(***************************************************************************)
(* C29                                                                     *)
(***************************************************************************)
\* the threads inside performRequest
InFlight == {t \in Reqs : call[t].stage # "outside"}

\* C29: however concurrent calls of performRequest interleave, at most one
\* request is in flight at any time, and the body a call returns is the
\* complete response to the URL it was called with when the transfer
\* succeeded and the empty string when it failed: never chunks of another
\* call's response, and never a buffer another call has cleared.
C29_RequestsIsolated ==
    /\ Cardinality(InFlight) <= 1
    /\ \A t \in Reqs :
        call[t].returned
        => call[t].result = IF call[t].res = "CURLE_OK"
                            THEN CompleteResponse(call[t].url) ELSE << >>

\* two calls for different URLs have both returned a response
C29_TwoResponsesReturned ==
    \E t, u \in Reqs :
        /\ call[t].returned /\ call[t].res = "CURLE_OK"
        /\ call[u].returned /\ call[u].res = "CURLE_OK"
        /\ call[t].url # call[u].url
=============================================================================
